---- MODULE Spec2Model ----
(***************************************************************************)
(* Model of the photoluminescence cell brightness analyzer                 *)
(* (src/cell_brightness_analyzer.py): one CellBrightnessAnalyzer session   *)
(* (image, cells, results), the brightness reductions, and the batch loop  *)
(* of batch_process_images.                                                *)
(*                                                                         *)
(* Values.  A grid is a sequence of rows, each a sequence of pixels; the   *)
(* empty sequence stands for image = None.  A float is an exact rational   *)
(* <<num, den>> in lowest terms (den > 0), NaN is <<0, 0>>.  The numpy and *)
(* OpenCV calls are modelled by what they compute; contour extraction      *)
(* (cv2.threshold + cv2.findContours) is an input: a sequence of contours  *)
(* each with its bounding box and twice its polygon area.                  *)
(***************************************************************************)
EXTENDS Integers, Sequences, FiniteSets, TLC

VARIABLES image, cells, results, lastCall, ret, passes, nops,
          bpc, image_files, cell_detection, grid_params, all_results

vars == <<image, cells, results, lastCall, ret, passes, nops,
          bpc, image_files, cell_detection, grid_params, all_results>>

sessionVars == <<image, cells, results, lastCall, ret, passes, nops>>
batchVars == <<bpc, image_files, cell_detection, grid_params, all_results>>

-----------------------------------------------------------------------------
(* Bounds of the model *)

MaxCells == 2
MaxOps == 4
MaxGridDim == 5
MaxGridCount == 3
MaxGridGap == 1
MaxContours == 3
MaxMinArea == 2
MaxReduceDim == 2
MaxFiles == 2
MaxStatCells == 4

-----------------------------------------------------------------------------
(* Numbers *)

Min(a, b) == IF a < b THEN a ELSE b
Max(a, b) == IF a > b THEN a ELSE b

RECURSIVE GCD(_, _)
GCD(a, b) == IF b = 0 THEN a ELSE GCD(b, a % b)

NaN == <<0, 0>>
Rat(n, d) == LET g == GCD(n, d) IN <<n \div g, d \div g>>
IsNaN(q) == q[2] = 0
(* q1 >= q2 on floats: false whenever either side is NaN *)
Geq(q1, q2) == ~IsNaN(q1) /\ ~IsNaN(q2) /\ q1[1] * q2[2] >= q2[1] * q1[2]

-----------------------------------------------------------------------------
(* Grids *)

NoImage == <<>>
Rows(img) == Len(img)
Cols(img) == Len(img[1])

(* A synthetic grayscale picture of the given shape; seed varies content. *)
Pix(p, r, c) == ((3 * r + 5 * c + 7 * p) % 4) * 20
Img(h, w, p) == [r \in 1..h |-> [c \in 1..w |-> Pix(p, r, c)]]

(* Python slice a[start:stop] on an axis of length n: 0-based indices kept *)
SliceBound(i, n) == IF i < 0 THEN Max(i + n, 0) ELSE Min(i, n)
SliceIdx(start, stop, n) ==
    { k \in 0..(n - 1) : SliceBound(start, n) <= k /\ k < SliceBound(stop, n) }

RECURSIVE SeqOfSet(_)
SeqOfSet(S) ==
    IF S = {} THEN <<>>
    ELSE LET m == CHOOSE x \in S : \A y \in S : x[1] < y[1] \/ (x[1] = y[1] /\ x[2] <= y[2])
         IN <<m>> \o SeqOfSet(S \ {m})

(* image[y:y+height, x:x+width], flattened row-major *)
CellRegion(img, cell) ==
    LET rs == SliceIdx(cell.y, cell.y + cell.height, Rows(img))
        cs == SliceIdx(cell.x, cell.x + cell.width, Cols(img))
        idx == SeqOfSet(rs \X cs)
    IN [k \in 1..Len(idx) |-> img[idx[k][1] + 1][idx[k][2] + 1]]

-----------------------------------------------------------------------------
(* numpy reductions over a flattened sample sequence *)

RECURSIVE Sum(_)
Sum(s) == IF s = <<>> THEN 0 ELSE Head(s) + Sum(Tail(s))

RECURSIVE SeqMax(_)
SeqMax(s) == IF Len(s) = 1 THEN s[1] ELSE Max(Head(s), SeqMax(Tail(s)))

RECURSIVE Insert(_, _)
Insert(v, s) ==
    IF s = <<>> THEN <<v>>
    ELSE IF v <= Head(s) THEN <<v>> \o s
    ELSE <<Head(s)>> \o Insert(v, Tail(s))

RECURSIVE Sorted(_)
Sorted(s) == IF s = <<>> THEN <<>> ELSE Insert(Head(s), Sorted(Tail(s)))

(* np.percentile(a, q), linear interpolation between order statistics *)
LinearPercentile(s, q) ==
    LET a == Sorted(s)
        n == Len(a)
        pos == q * (n - 1)
        lo == pos \div 100
        fr == pos % 100
        hi == Min(lo + 1, n - 1)
    IN Rat(100 * a[lo + 1] + fr * (a[hi + 1] - a[lo + 1]), 100)

(* Mutant of NpMean: the sum is not divided by the sample count *)
NpMeanNotDivided(s) == IF s = <<>> THEN NaN ELSE Rat(Sum(s), 1)

NpMean(s) == IF s = <<>> THEN NaN ELSE Rat(Sum(s), Len(s))

NpMedian(s) ==
    IF s = <<>> THEN NaN
    ELSE LET a == Sorted(s)
             n == Len(a)
         IN IF n % 2 = 1 THEN Rat(a[(n + 1) \div 2], 1)
            ELSE Rat(a[n \div 2] + a[n \div 2 + 1], 2)

Methods == {"mean", "median", "max", "percentile"}
MethodTokens == Methods \cup {"average"}

(* What np.percentile does on an empty array depends on the numpy build:  *)
(* NaN with a warning, or IndexError.                                      *)
NumpyBuilds == {"nan", "IndexError"}

ErrNone == "none"
ErrNoImage == "ValueError: No image loaded"
ErrNoCells == "ValueError: No cells defined"
ErrNoResults == "ValueError: No results available"
ErrUnknownMethod == "ValueError: Unknown method"
ErrEmptyMax == "ValueError: zero-size array to reduction operation maximum"
ErrIndex == "IndexError"
ErrZeroDiv == "ZeroDivisionError"
ErrNoConcat == "ValueError: No objects to concatenate"
ValueErrors == {ErrNoImage, ErrNoCells, ErrNoResults, ErrUnknownMethod, ErrEmptyMax,
                ErrNoConcat}

(* Mutant of Brightness: an unknown method token falls back to the mean *)
BrightnessFallsBackToMean(img, cell, method, np) ==
    IF img = NoImage THEN [err |-> ErrNoImage, val |-> NaN]
    ELSE LET s == CellRegion(img, cell)
         IN CASE method = "median" -> [err |-> ErrNone, val |-> NpMedian(s)]
              [] method = "max" ->
                    IF s = <<>> THEN [err |-> ErrEmptyMax, val |-> NaN]
                    ELSE [err |-> ErrNone, val |-> Rat(SeqMax(s), 1)]
              [] method = "percentile" ->
                    IF s = <<>>
                    THEN (IF np = "nan" THEN [err |-> ErrNone, val |-> NaN]
                          ELSE [err |-> ErrIndex, val |-> NaN])
                    ELSE [err |-> ErrNone, val |-> LinearPercentile(s, 95)]
              [] OTHER -> [err |-> ErrNone, val |-> NpMean(s)]

(* The body of calculate_brightness up to the assignment: [err, val] *)
Brightness(img, cell, method, np) ==
    IF img = NoImage THEN [err |-> ErrNoImage, val |-> NaN]
    ELSE LET s == CellRegion(img, cell)
         IN CASE method = "mean" -> [err |-> ErrNone, val |-> NpMean(s)]
              [] method = "median" -> [err |-> ErrNone, val |-> NpMedian(s)]
              [] method = "max" ->
                    IF s = <<>> THEN [err |-> ErrEmptyMax, val |-> NaN]
                    ELSE [err |-> ErrNone, val |-> Rat(SeqMax(s), 1)]
              [] method = "percentile" ->
                    IF s = <<>>
                    THEN (IF np = "nan" THEN [err |-> ErrNone, val |-> NaN]
                          ELSE [err |-> ErrIndex, val |-> NaN])
                    ELSE [err |-> ErrNone, val |-> LinearPercentile(s, 95)]
              [] OTHER -> [err |-> ErrUnknownMethod, val |-> NaN]

-----------------------------------------------------------------------------
(* Cells *)

Cell(x, y, w, h, id) ==
    [x |-> x, y |-> y, width |-> w, height |-> h, brightness |-> <<0, 1>>, cell_id |-> id]

to_dict(cell) ==
    [cell_id |-> cell.cell_id, x |-> cell.x, y |-> cell.y, width |-> cell.width,
     height |-> cell.height, brightness |-> cell.brightness]

AutoId(i) == "cell_" \o ToString(i)
GridId(row, col) == "cell_r" \o ToString(row + 1) \o "_c" \o ToString(col + 1)

NoId == "<None>"

IsPrefix(s, t) == Len(s) <= Len(t) /\ \A i \in 1..Len(s) : t[i] = s[i]

-----------------------------------------------------------------------------
(* The session: CellBrightnessAnalyzer *)

Call(op, args, err) == [op |-> op, args |-> args, err |-> err]

(* A call that raises: nothing assigned, nothing returned *)
Raise(op, args, err) ==
    /\ lastCall' = Call(op, args, err)
    /\ ret' = <<>>
    /\ UNCHANGED <<image, cells, results, passes>>

(* Mutant of LoadImage: loading a grid clears the cells and the results *)
LoadImageClearing(exists, img) ==
    IF ~exists
    THEN Raise("load_image", <<exists>>, "FileNotFoundError")
    ELSE /\ image' = img
         /\ cells' = <<>>
         /\ results' = <<>>
         /\ lastCall' = Call("load_image", <<exists>>, ErrNone)
         /\ ret' = <<img>>
         /\ UNCHANGED passes

(* load_image: the path does not exist, or self.image becomes the decoded grid *)
LoadImage(exists, img) ==
    /\ IF ~exists
       THEN Raise("load_image", <<exists>>, "FileNotFoundError")
       ELSE /\ image' = img
            /\ lastCall' = Call("load_image", <<exists>>, ErrNone)
            /\ ret' = <<img>>
            /\ UNCHANGED <<cells, results, passes>>

(* Mutant of DetectedFrom: ids number the kept contours, not all contours *)
DetectedRenumbered(contours, min_area, i) ==
    LET kept == SelectSeq(contours, LAMBDA c : c.area2 >= 2 * min_area)
    IN [k \in 1..Len(kept) |-> Cell(kept[k].x, kept[k].y, kept[k].w, kept[k].h, AutoId(k))]

(* The cells kept by the loop of detect_cells_automatically.  A contour is *)
(* [x, y, w, h, area2]: cv2.boundingRect, and twice cv2.contourArea.       *)
RECURSIVE DetectedFrom(_, _, _)
DetectedFrom(contours, min_area, i) ==
    IF i > Len(contours) THEN <<>>
    ELSE LET c == contours[i]
             rest == DetectedFrom(contours, min_area, i + 1)
         IN IF c.area2 >= 2 * min_area
            THEN <<Cell(c.x, c.y, c.w, c.h, AutoId(i))>> \o rest
            ELSE rest

(* Mutant of DetectCellsAutomatically: the check for a loaded image is missing *)
DetectWithoutImageCheck(contours, min_area) ==
    LET found == DetectedFrom(contours, min_area, 1)
    IN /\ cells' = found
       /\ ret' = found
       /\ lastCall' = Call("detect_cells_automatically", <<contours, min_area>>, ErrNone)
       /\ UNCHANGED <<image, results, passes>>

DetectCellsAutomatically(contours, min_area) ==
    /\ IF image = NoImage
       THEN Raise("detect_cells_automatically", <<contours, min_area>>, ErrNoImage)
       ELSE LET found == DetectedFrom(contours, min_area, 1)
            IN /\ cells' = found
               /\ ret' = found
               /\ lastCall' = Call("detect_cells_automatically", <<contours, min_area>>, ErrNone)
               /\ UNCHANGED <<image, results, passes>>

(* Mutant of AppendCell: the new cell replaces the list *)
ReplaceByCell(cs, cell) == <<cell>>

AppendCell(cs, cell) == Append(cs, cell)

AddCellManual(x, y, width, height, cell_id) ==
    /\ LET id == IF cell_id = NoId THEN AutoId(Len(cells) + 1) ELSE cell_id
           cell == Cell(x, y, width, height, id)
       IN /\ cells' = AppendCell(cells, cell)
          /\ ret' = <<cell>>
          /\ lastCall' = Call("add_cell_manual", <<x, y, width, height, cell_id>>, ErrNone)
    /\ UNCHANGED <<image, results, passes>>

(* Python a // b, b # 0 *)
FloorDiv(a, b) == IF b > 0 THEN a \div b ELSE (0 - a) \div (0 - b)

(* Mutant of CellSize: the spacing between cells is not subtracted *)
CellSizeIgnoringSpacing(img_dim, margin, spacing, count) ==
    FloorDiv(img_dim - 2 * margin, count)

(* (img_dim - 2*margin - (count-1)*spacing) // count *)
CellSize(img_dim, margin, spacing, count) ==
    FloorDiv(img_dim - 2 * margin - (count - 1) * spacing, count)

GridCells(img, rows, cols, margin, spacing) ==
    LET cell_width == CellSize(Cols(img), margin, spacing, cols)
        cell_height == CellSize(Rows(img), margin, spacing, rows)
        n == IF rows > 0 /\ cols > 0 THEN rows * cols ELSE 0
    IN [k \in 1..n |->
           LET row == (k - 1) \div cols
               col == (k - 1) % cols
           IN Cell(margin + col * (cell_width + spacing),
                   margin + row * (cell_height + spacing),
                   cell_width, cell_height, GridId(row, col))]

AddCellsGrid(rows, cols, margin, spacing) ==
    /\ IF image = NoImage
       THEN Raise("add_cells_grid", <<rows, cols, margin, spacing>>, ErrNoImage)
       ELSE IF cols = 0 \/ rows = 0
       THEN Raise("add_cells_grid", <<rows, cols, margin, spacing>>, ErrZeroDiv)
       ELSE LET new == GridCells(image, rows, cols, margin, spacing)
            IN /\ cells' = cells \o new
               /\ ret' = new
               /\ lastCall' = Call("add_cells_grid", <<rows, cols, margin, spacing>>, ErrNone)
               /\ UNCHANGED <<image, results, passes>>

(* Mutant of CalculateBrightness: the result records are the cells         *)
(* themselves, so the record of the cell changes with it                   *)
CalculateBrightnessThroughRecords(i, method, np) ==
    LET b == Brightness(image, cells[i], method, np)
    IN IF b.err # ErrNone
       THEN Raise("calculate_brightness", <<i, method>>, b.err)
       ELSE /\ cells' = [cells EXCEPT ![i].brightness = b.val]
            /\ results' = [k \in 1..Len(results) |->
                              IF k = i THEN [results[k] EXCEPT !.brightness = b.val]
                              ELSE results[k]]
            /\ ret' = <<b.val>>
            /\ lastCall' = Call("calculate_brightness", <<i, method>>, ErrNone)
            /\ UNCHANGED <<image, passes>>

(* calculate_brightness on the i-th cell of the session *)
CalculateBrightness(i, method, np) ==
    /\ LET b == Brightness(image, cells[i], method, np)
       IN IF b.err # ErrNone
          THEN Raise("calculate_brightness", <<i, method>>, b.err)
          ELSE /\ cells' = [cells EXCEPT ![i].brightness = b.val]
               /\ ret' = <<b.val>>
               /\ lastCall' = Call("calculate_brightness", <<i, method>>, ErrNone)
               /\ UNCHANGED <<image, results, passes>>

(* Index of the first cell whose reduction raises, 0 if none does *)
FirstFailure(img, cs, method, np) ==
    LET bad == { i \in 1..Len(cs) : Brightness(img, cs[i], method, np).err # ErrNone }
    IN IF bad = {} THEN 0 ELSE CHOOSE i \in bad : \A j \in bad : i <= j

(* The cells after the loop of analyze_all_cells has run up to (not including) cell ff *)
Reduced(img, cs, method, np, ff) ==
    [i \in 1..Len(cs) |->
        IF ff = 0 \/ i < ff
        THEN [cs[i] EXCEPT !.brightness = Brightness(img, cs[i], method, np).val]
        ELSE cs[i]]

(* Mutant of NoCellsDefined: the emptiness check never fires *)
NeverEmpty(cs) == FALSE

(* if not self.cells *)
NoCellsDefined(cs) == cs = <<>>

(* Mutant of AssignResults: the new records are appended to the old ones *)
AppendResults(old, new) == old \o new

AssignResults(old, new) == new

AnalyzeAllCells(method, np) ==
    /\ IF NoCellsDefined(cells)
       THEN Raise("analyze_all_cells", <<method>>, ErrNoCells)
       ELSE LET ff == FirstFailure(image, cells, method, np)
                after == Reduced(image, cells, method, np, ff)
            IN IF ff # 0
               THEN /\ cells' = after
                    /\ lastCall' = Call("analyze_all_cells", <<method>>,
                                        Brightness(image, cells[ff], method, np).err)
                    /\ ret' = <<>>
                    /\ UNCHANGED <<image, results, passes>>
               ELSE /\ cells' = after
                    /\ results' = AssignResults(results, [i \in 1..Len(after) |-> to_dict(after[i])])
                    /\ ret' = results'
                    /\ lastCall' = Call("analyze_all_cells", <<method>>, ErrNone)
                    /\ passes' = Min(passes + 1, 2)
                    /\ UNCHANGED image

(* Arithmetic on floats held as exact rationals; NaN propagates *)
RAdd(a, b) == IF IsNaN(a) \/ IsNaN(b) THEN NaN ELSE Rat(a[1] * b[2] + b[1] * a[2], a[2] * b[2])
RSub(a, b) == IF IsNaN(a) \/ IsNaN(b) THEN NaN ELSE Rat(a[1] * b[2] - b[1] * a[2], a[2] * b[2])
RMul(a, b) == IF IsNaN(a) \/ IsNaN(b) THEN NaN ELSE Rat(a[1] * b[1], a[2] * b[2])
RLeq(a, b) == a[1] * b[2] <= b[1] * a[2]

RECURSIVE RSum(_)
RSum(s) == IF s = <<>> THEN <<0, 1>> ELSE RAdd(Head(s), RSum(Tail(s)))

RECURSIVE RInsert(_, _)
RInsert(v, s) ==
    IF s = <<>> THEN <<v>>
    ELSE IF RLeq(v, Head(s)) THEN <<v>> \o s
    ELSE <<Head(s)>> \o RInsert(v, Tail(s))

RECURSIVE RSorted(_)
RSorted(s) == IF s = <<>> THEN <<>> ELSE RInsert(Head(s), RSorted(Tail(s)))

HasNaN(s) == \E i \in 1..Len(s) : IsNaN(s[i])

(* Mutant of RPercentile: the lower order statistic, without interpolation *)
RPercentileLowerRank(s, q) ==
    IF HasNaN(s) THEN NaN
    ELSE RSorted(s)[(q * (Len(s) - 1)) \div 100 + 1]

(* np.percentile(brightnesses, q) on a non-empty list of floats *)
RPercentile(s, q) ==
    IF HasNaN(s) THEN NaN
    ELSE LET a == RSorted(s)
             n == Len(a)
             pos == q * (n - 1)
             lo == pos \div 100
             fr == pos % 100
             hi == Min(lo + 1, n - 1)
         IN RAdd(a[lo + 1], RMul(<<fr, 100>>, RSub(a[hi + 1], a[lo + 1])))

RMean(s) == RMul(RSum(s), <<1, Len(s)>>)

(* The dictionary get_statistics builds; std is held as its square *)
Statistics(brightnesses) ==
    LET a == RSorted(brightnesses)
        m == RMean(brightnesses)
        dev2 == [i \in 1..Len(brightnesses) |->
                    RMul(RSub(brightnesses[i], m), RSub(brightnesses[i], m))]
    IN [count |-> Len(brightnesses),
        mean |-> m,
        std_squared |-> RMean(dev2),
        min |-> IF HasNaN(brightnesses) THEN NaN ELSE a[1],
        max |-> IF HasNaN(brightnesses) THEN NaN ELSE a[Len(a)],
        median |-> RPercentile(brightnesses, 50),
        q1 |-> RPercentile(brightnesses, 25),
        q3 |-> RPercentile(brightnesses, 75)]

GetStatistics ==
    /\ IF results = <<>>
       THEN Raise("get_statistics", <<>>, ErrNoResults)
       ELSE /\ ret' = <<Statistics([i \in 1..Len(results) |-> results[i].brightness])>>
            /\ lastCall' = Call("get_statistics", <<>>, ErrNone)
            /\ UNCHANGED <<image, cells, results, passes>>

-----------------------------------------------------------------------------
(* Inputs of the session *)

SessionImages == { Img(2, 2, p) : p \in {0, 1} }

(* Arguments a caller passes to add_cell_manual: a rectangle inside the    *)
(* grids of the session (with and without an id), one of zero width, one   *)
(* running past the right edge.                                            *)
ManualArgs == { <<0, 0, 1, 2, NoId>>, <<1, 0, 1, 1, "roi">>, <<0, 1, 0, 1, NoId>>,
                <<1, 1, 2, 1, NoId>> }

(* Arguments a caller passes to add_cells_grid: <<rows, cols, margin, spacing>> *)
GridArgs == { <<1, 2, 0, 0>>, <<2, 1, 0, 0>>, <<1, 1, 1, 0>>, <<1, 2, 0, 1>>,
              <<0, 1, 0, 0>>, <<1, 0, 0, 0>>, <<-1, 2, 0, 0>> }

(* Contours cv2.findContours can report on a grid: bounding boxes inside   *)
(* it, with twice the polygon area, which is at most (w-1)*(h-1).          *)
Contour(x, y, w, h, area2) == [x |-> x, y |-> y, w |-> w, h |-> h, area2 |-> area2]

SessionContours == { Contour(0, 0, 2, 2, 2), Contour(1, 0, 1, 2, 0) }

SeqsUpTo(S, n) == UNION { [1..k -> S] : k \in 0..n }

MinAreas == {0, 1}

-----------------------------------------------------------------------------
(* The session specification: at most MaxOps calls on one analyzer, which  *)
(* holds at most MaxCells cells.                                           *)

BatchIdle ==
    /\ bpc = "idle"
    /\ image_files = <<>>
    /\ cell_detection = "auto"
    /\ grid_params = <<>>
    /\ all_results = <<>>

Init ==
    /\ image = NoImage
    /\ cells = <<>>
    /\ results = <<>>
    /\ lastCall = Call("__init__", <<>>, ErrNone)
    /\ ret = <<>>
    /\ passes = 0
    /\ nops = 0
    /\ BatchIdle

Step(A) == nops < MaxOps /\ nops' = nops + 1 /\ A /\ UNCHANGED batchVars

Next ==
    \/ \E exists \in BOOLEAN, img \in SessionImages : Step(LoadImage(exists, img))
    \/ \E min_area \in MinAreas, contours \in SeqsUpTo(SessionContours, MaxCells) :
         Step(DetectCellsAutomatically(contours, min_area))
    \/ \E a \in ManualArgs :
         /\ Len(cells) < MaxCells
         /\ Step(AddCellManual(a[1], a[2], a[3], a[4], a[5]))
    \/ \E g \in GridArgs :
         /\ (g[1] > 0 /\ g[2] > 0) => Len(cells) + g[1] * g[2] <= MaxCells
         /\ Step(AddCellsGrid(g[1], g[2], g[3], g[4]))
    \/ \E i \in 1..Len(cells), method \in MethodTokens, np \in NumpyBuilds :
         Step(CalculateBrightness(i, method, np))
    \/ \E method \in MethodTokens, np \in NumpyBuilds : Step(AnalyzeAllCells(method, np))
    \/ Step(GetStatistics)

Spec == Init /\ [][Next]_vars

-----------------------------------------------------------------------------
(* add_cells_grid alone: one call on a loaded grid of any shape up to      *)
(* MaxGridDim, the session holding no cell or one manual cell before it.   *)

InitGrid ==
    /\ image \in { Img(h, w, 0) : h \in 1..MaxGridDim, w \in 1..MaxGridDim }
    /\ cells \in { <<>>, <<Cell(0, 0, 1, 1, "roi")>> }
    /\ results = <<>>
    /\ lastCall = Call("load_image", <<TRUE>>, ErrNone)
    /\ ret = <<>>
    /\ passes = 0
    /\ nops = 0
    /\ BatchIdle

NextGrid ==
    \E rows \in -1..MaxGridCount, cols \in -1..MaxGridCount,
       margin \in 0..MaxGridGap, spacing \in 0..MaxGridGap :
         /\ nops < 1
         /\ nops' = nops + 1
         /\ AddCellsGrid(rows, cols, margin, spacing)
         /\ UNCHANGED batchVars

SpecGrid == InitGrid /\ [][NextGrid]_vars

-----------------------------------------------------------------------------
(* detect_cells_automatically alone: one call on a loaded grid, over every *)
(* sequence of up to MaxContours contours.                                 *)

DetectContours ==
    { Contour(0, 0, 1, 1, 0), Contour(0, 0, 2, 2, 2), Contour(1, 0, 2, 3, 4),
      Contour(0, 1, 3, 2, 3), Contour(0, 0, 3, 3, 8) }

InitDetect ==
    /\ image = Img(3, 3, 0)
    /\ cells \in { <<>>, <<Cell(0, 0, 1, 1, "roi")>> }
    /\ results = <<>>
    /\ lastCall = Call("load_image", <<TRUE>>, ErrNone)
    /\ ret = <<>>
    /\ passes = 0
    /\ nops = 0
    /\ BatchIdle

NextDetect ==
    \E min_area \in 0..MaxMinArea, contours \in SeqsUpTo(DetectContours, MaxContours) :
         /\ nops < 1
         /\ nops' = nops + 1
         /\ DetectCellsAutomatically(contours, min_area)
         /\ UNCHANGED batchVars

SpecDetect == InitDetect /\ [][NextDetect]_vars

-----------------------------------------------------------------------------
(* calculate_brightness alone: every grid of black and white pixels up to  *)
(* MaxReduceDim x MaxReduceDim and every rectangle inside it.              *)

ReducePixels == {0, 255}

ReduceGrids ==
    UNION { [1..h -> [1..w -> ReducePixels]] : h \in 1..MaxReduceDim, w \in 1..MaxReduceDim }

RegionsInside(img) ==
    { Cell(x, y, w, h, "cell_1") :
        x \in 0..(Cols(img) - 1), y \in 0..(Rows(img) - 1),
        w \in 1..Cols(img), h \in 1..Rows(img) }

InitReduce ==
    /\ image \in ReduceGrids
    /\ cells \in { <<c>> : c \in { r \in RegionsInside(image) :
                                      /\ r.x + r.width <= Cols(image)
                                      /\ r.y + r.height <= Rows(image) } }
    /\ results = <<>>
    /\ lastCall = Call("add_cell_manual", <<>>, ErrNone)
    /\ ret = <<>>
    /\ passes = 0
    /\ nops = 0
    /\ BatchIdle

NextReduce ==
    \E method \in MethodTokens, np \in NumpyBuilds :
         /\ nops < 1
         /\ nops' = nops + 1
         /\ CalculateBrightness(1, method, np)
         /\ UNCHANGED batchVars

SpecReduce == InitReduce /\ [][NextReduce]_vars

-----------------------------------------------------------------------------
(* get_statistics after an analysis: a one-row grid of up to MaxStatCells  *)
(* pixels, one cell per pixel and possibly a cell over the whole row.      *)

StatPixels == {10, 20, 30, 40}

StatGrids == { <<row>> : row \in UNION { [1..n -> StatPixels] : n \in 1..MaxStatCells } }

InitStats ==
    /\ image \in StatGrids
    /\ cells \in { GridCells(image, 1, Cols(image), 0, 0),
                   GridCells(image, 1, Cols(image), 0, 0)
                      \o <<Cell(0, 0, Cols(image), 1, "row")>> }
    /\ results = <<>>
    /\ lastCall = Call("add_cells_grid", <<1, Cols(image), 0, 0>>, ErrNone)
    /\ ret = <<>>
    /\ passes = 0
    /\ nops = 0
    /\ BatchIdle

NextStats ==
    \/ \E method \in Methods, np \in NumpyBuilds :
          /\ nops = 0
          /\ nops' = 1
          /\ AnalyzeAllCells(method, np)
          /\ UNCHANGED batchVars
    \/ /\ nops <= 1
       /\ nops' = 2
       /\ GetStatistics
       /\ UNCHANGED batchVars

SpecStats == InitStats /\ [][NextStats]_vars

-----------------------------------------------------------------------------
(* batch_process_images: the loop over the image files of a folder.  The   *)
(* session variables hold the analyzer of the current iteration.           *)

DefaultMinArea == 100

(* Path.suffix.lower() of the suffixes in the folders modelled *)
Lower(suffix) ==
    CASE suffix = ".TIF" -> ".tif"
      [] suffix = ".PNG" -> ".png"
      [] OTHER -> suffix

image_extensions == {".jpg", ".jpeg", ".png", ".tif", ".tiff", ".bmp"}

File(name, suffix, img, contours) ==
    [name |-> name, suffix |-> suffix, img |-> img, contours |-> contours]

(* The files a folder can hold: pictures of one size, and a text file *)
FolderFiles ==
    { File("pl_image_1.tif", ".tif", Img(3, 3, 0), <<Contour(0, 0, 3, 3, 8)>>),
      File("pl_image_2.PNG", ".PNG", Img(3, 3, 1), <<>>),
      File("pl_image_3.bmp", ".bmp", Img(3, 3, 2), <<Contour(1, 1, 2, 2, 2)>>),
      File("notes.txt", ".txt", NoImage, <<>>) }

(* Path.iterdir(): the files of the folder in an arbitrary order *)
Listings ==
    { l \in SeqsUpTo(FolderFiles, MaxFiles) : \A i, j \in 1..Len(l) : i # j => l[i] # l[j] }

RECURSIVE SelectImages(_)
SelectImages(listing) ==
    IF listing = <<>> THEN <<>>
    ELSE IF Lower(Head(listing).suffix) \in image_extensions
         THEN <<Head(listing)>> \o SelectImages(Tail(listing))
         ELSE SelectImages(Tail(listing))

NoParams == <<>>
BatchGridParams == { NoParams } \cup ((0..2) \X (1..2) \X (0..1) \X (0..1))

RECURSIVE Concat(_)
Concat(dfs) == IF dfs = <<>> THEN <<>> ELSE Head(dfs) \o Concat(Tail(dfs))

(* df['image_name'] = image_file.name *)
Tagged(df, name) ==
    [i \in 1..Len(df) |->
        [cell_id |-> df[i].cell_id, x |-> df[i].x, y |-> df[i].y, width |-> df[i].width,
         height |-> df[i].height, brightness |-> df[i].brightness, image_name |-> name]]

CurrentFile == image_files[Len(all_results) + 1]

InitBatch ==
    /\ image = NoImage
    /\ cells = <<>>
    /\ results = <<>>
    /\ lastCall = Call("__init__", <<>>, ErrNone)
    /\ ret = <<>>
    /\ passes = 0
    /\ nops = 0
    /\ bpc = "for"
    /\ image_files \in { SelectImages(l) : l \in Listings }
    /\ cell_detection \in {"auto", "grid"}
    /\ grid_params \in BatchGridParams
    /\ all_results = <<>>

(* analyzer = CellBrightnessAnalyzer() *)
NewAnalyzer ==
    /\ image' = NoImage
    /\ cells' = <<>>
    /\ results' = <<>>
    /\ passes' = 0
    /\ lastCall' = Call("__init__", <<>>, ErrNone)
    /\ ret' = <<>>

BatchNext ==
    /\ bpc = "for"
    /\ Len(all_results) < Len(image_files)
    /\ NewAnalyzer
    /\ bpc' = "load"
    /\ UNCHANGED <<nops, image_files, cell_detection, grid_params, all_results>>

BatchLoad ==
    /\ bpc = "load"
    /\ LoadImage(TRUE, CurrentFile.img)
    /\ bpc' = "detect"
    /\ UNCHANGED <<nops, image_files, cell_detection, grid_params, all_results>>

BatchDetect ==
    /\ bpc = "detect"
    /\ IF cell_detection = "auto"
       THEN DetectCellsAutomatically(CurrentFile.contours, DefaultMinArea)
       ELSE IF cell_detection = "grid" /\ grid_params # NoParams
       THEN AddCellsGrid(grid_params[1], grid_params[2], grid_params[3], grid_params[4])
       ELSE UNCHANGED <<image, cells, results, lastCall, ret, passes>>
    /\ bpc' = IF lastCall'.err = ErrNone THEN "analyze" ELSE "raised"
    /\ UNCHANGED <<nops, image_files, cell_detection, grid_params, all_results>>

BatchAnalyze ==
    /\ bpc = "analyze"
    /\ \E np \in NumpyBuilds : AnalyzeAllCells("mean", np)
    /\ IF lastCall'.err = ErrNone
       THEN /\ all_results' = Append(all_results, Tagged(ret', CurrentFile.name))
            /\ bpc' = "for"
       ELSE /\ bpc' = "raised"
            /\ UNCHANGED all_results
    /\ UNCHANGED <<nops, image_files, cell_detection, grid_params>>

(* combined_df = pd.concat(all_results, ignore_index=True); return combined_df *)
BatchReturn ==
    /\ bpc = "for"
    /\ Len(all_results) = Len(image_files)
    /\ IF all_results = <<>>
       THEN /\ lastCall' = Call("batch_process_images", <<>>, ErrNoConcat)
            /\ ret' = <<>>
            /\ bpc' = "raised"
       ELSE /\ lastCall' = Call("batch_process_images", <<>>, ErrNone)
            /\ ret' = Concat(all_results)
            /\ bpc' = "returned"
    /\ UNCHANGED <<image, cells, results, passes, nops,
                   image_files, cell_detection, grid_params, all_results>>

NextBatch == BatchNext \/ BatchLoad \/ BatchDetect \/ BatchAnalyze \/ BatchReturn

SpecBatch == InitBatch /\ [][NextBatch]_vars

-----------------------------------------------------------------------------
(* Properties *)

Op == lastCall.op
Succeeded == lastCall.err = ErrNone
SameGeometry(r, c) ==
    /\ r.cell_id = c.cell_id
    /\ r.x = c.x
    /\ r.y = c.y
    /\ r.width = c.width
    /\ r.height = c.height

(* C1: after a successful analyze_all_cells(method) the results are exactly *)
(* one record per cell of the region list, in list order, each carrying    *)
(* the cell's id and rectangle and the brightness just computed for it     *)
(* from the loaded grid; earlier results are gone (Spec).                  *)
C1_AnalyzeReplacesResults ==
    (Op = "analyze_all_cells" /\ Succeeded) =>
        /\ Len(results) = Len(cells)
        /\ ret = results
        /\ \A i \in 1..Len(cells) :
              /\ SameGeometry(results[i], cells[i])
              /\ results[i].brightness = cells[i].brightness
              /\ results[i].brightness =
                    Brightness(image, cells[i], lastCall.args[1], "nan").val

(* C1 witness: a second successful pass over a list of two cells *)
C1_Witness ==
    /\ Op = "analyze_all_cells"
    /\ Succeeded
    /\ passes = 2
    /\ Len(cells) = 2
    /\ Len(results) = 2

(* C2: add_cells_grid with rows, cols >= 1 and margin, spacing >= 0 that   *)
(* leave a positive cell width and height returns rows*cols cells in       *)
(* row-major order with ids cell_r{row+1}_c{col+1}, all of one width and   *)
(* one height, each inside the grid, no two overlapping (SpecGrid).        *)
C2_GridPartition ==
    (Op = "add_cells_grid") =>
        LET rows == lastCall.args[1]
            cols == lastCall.args[2]
            margin == lastCall.args[3]
            spacing == lastCall.args[4]
            fits == /\ rows >= 1
                    /\ cols >= 1
                    /\ Cols(image) - 2 * margin - (cols - 1) * spacing >= cols
                    /\ Rows(image) - 2 * margin - (rows - 1) * spacing >= rows
        IN fits =>
            /\ Succeeded
            /\ Len(ret) = rows * cols
            /\ \A row \in 0..(rows - 1), col \in 0..(cols - 1) :
                  LET c == ret[row * cols + col + 1]
                  IN /\ c.cell_id = "cell_r" \o ToString(row + 1) \o "_c" \o ToString(col + 1)
                     /\ c.x = margin + col * (c.width + spacing)
                     /\ c.y = margin + row * (c.height + spacing)
            /\ \A k \in 1..Len(ret) :
                  /\ ret[k].width = ret[1].width
                  /\ ret[k].height = ret[1].height
                  /\ ret[k].width > 0
                  /\ ret[k].height > 0
                  /\ ret[k].x >= 0
                  /\ ret[k].y >= 0
                  /\ ret[k].x + ret[k].width <= Cols(image)
                  /\ ret[k].y + ret[k].height <= Rows(image)
            /\ \A k, l \in 1..Len(ret) :
                  k # l =>
                     \/ ret[k].x + ret[k].width <= ret[l].x
                     \/ ret[l].x + ret[l].width <= ret[k].x
                     \/ ret[k].y + ret[k].height <= ret[l].y
                     \/ ret[l].y + ret[l].height <= ret[k].y

(* C2 witness: a 2 x 2 grid with margin 1 and spacing 1 that fits *)
C2_Witness ==
    /\ Op = "add_cells_grid"
    /\ lastCall.args = <<2, 2, 1, 1>>
    /\ Len(ret) = 4
    /\ ret[1].width > 0
    /\ ret[1].height > 0

(* C3: with a grid loaded, every cell of the region list has positive      *)
(* width and height and lies inside the grid (Spec).  The code stores what *)
(* it is given, so this fails.                                             *)
C3_RegionsInsideGrid ==
    image # NoImage =>
        \A i \in 1..Len(cells) :
            /\ cells[i].width > 0
            /\ cells[i].height > 0
            /\ cells[i].x + cells[i].width <= Cols(image)
            /\ cells[i].y + cells[i].height <= Rows(image)

(* C4 as stated: detect_cells_automatically and add_cell_manual keep every *)
(* cell that was in the list, at its position (Spec).                      *)
C4_LocatorsAppend ==
    [][lastCall'.op \in {"detect_cells_automatically", "add_cell_manual"}
          => IsPrefix(cells, cells')]_vars

(* C4 amended: add_cell_manual and add_cells_grid append the cells they    *)
(* return after the cells already listed; detect_cells_automatically sets  *)
(* the list to exactly the cells it returns; a failing call leaves the     *)
(* list as it was (Spec).                                                  *)
C4_ManualAndGridAppend ==
    [][/\ lastCall'.op = "add_cell_manual" =>
            /\ lastCall'.err = ErrNone
            /\ cells' = cells \o ret'
            /\ Len(ret') = 1
       /\ lastCall'.op = "add_cells_grid" =>
            cells' = cells \o ret'
       /\ lastCall'.op = "detect_cells_automatically" =>
            cells' = IF lastCall'.err = ErrNone THEN ret' ELSE cells]_vars

(* C4 witness: add_cell_manual on a list that already held a cell *)
C4_Witness ==
    /\ Op = "add_cell_manual"
    /\ Len(cells) = 2
    /\ ret = <<cells[2]>>

(* C5: analyze_all_cells on an empty region list and get_statistics on an  *)
(* empty result sequence raise ValueError and change nothing;              *)
(* get_statistics raises as long as no analyze_all_cells has succeeded     *)
(* (Spec).                                                                 *)
C5_EmptyPreconditions ==
    [][/\ (lastCall'.op = "analyze_all_cells" /\ cells = <<>>) =>
            /\ lastCall'.err \in ValueErrors
            /\ UNCHANGED <<image, cells, results>>
       /\ (lastCall'.op = "get_statistics" /\ (results = <<>> \/ passes = 0)) =>
            /\ lastCall'.err \in ValueErrors
            /\ UNCHANGED <<image, cells, results>>]_vars

(* C5 witness: get_statistics has failed on a session that holds a grid    *)
(* and cells but has not completed an analysis                             *)
C5_Witness ==
    /\ Op = "get_statistics"
    /\ lastCall.err = ErrNoResults
    /\ passes = 0
    /\ image # NoImage
    /\ cells # <<>>

(* C6: with no grid loaded, detect_cells_automatically, add_cells_grid and *)
(* calculate_brightness raise ValueError and change no cell and no result; *)
(* so does analyze_all_cells on manually added cells (Spec).               *)
C6_NoGridLoaded ==
    [][(/\ image = NoImage
        /\ lastCall'.op \in {"detect_cells_automatically", "add_cells_grid",
                             "calculate_brightness", "analyze_all_cells"})
          => /\ lastCall'.err \in ValueErrors
             /\ UNCHANGED <<image, cells, results>>]_vars

(* C6 witness: analyze_all_cells has failed on manually added cells with   *)
(* no grid loaded                                                          *)
C6_Witness ==
    /\ Op = "analyze_all_cells"
    /\ lastCall.err = ErrNoImage
    /\ image = NoImage
    /\ Len(cells) = 2

(* C7: calculate_brightness with a token other than mean, median, max,     *)
(* percentile raises ValueError and leaves the cell's brightness as it     *)
(* was; analyze_all_cells with such a token on a non-empty list raises     *)
(* likewise and leaves every brightness and the held results as they were  *)
(* (Spec).                                                                 *)
C7_UnknownMethod ==
    [][/\ (lastCall'.op = "calculate_brightness" /\ lastCall'.args[2] \notin Methods) =>
            /\ lastCall'.err \in ValueErrors
            /\ UNCHANGED <<image, cells, results>>
       /\ (lastCall'.op = "analyze_all_cells" /\ lastCall'.args[1] \notin Methods
             /\ cells # <<>>) =>
            /\ lastCall'.err \in ValueErrors
            /\ UNCHANGED <<image, cells, results>>]_vars

(* C7 witness: analyze_all_cells with an unknown token has failed on a     *)
(* session that holds results of an earlier pass                           *)
C7_Witness ==
    /\ Op = "analyze_all_cells"
    /\ lastCall.args[1] \notin Methods
    /\ lastCall.err = ErrUnknownMethod
    /\ results # <<>>
    /\ \E i \in 1..Len(cells) : cells[i].brightness # <<0, 1>>

(* The samples of the only cell of the reduction specification *)
Samples == CellRegion(image, cells[1])
CalledWith(method) ==
    /\ Op = "calculate_brightness"
    /\ Succeeded
    /\ lastCall.args[2] = method

(* C8 as stated: on a non-degenerate region inside a grid of non-negative  *)
(* samples, max >= mean >= median (SpecReduce).                            *)
C8_MaxMeanMedianChain ==
    /\ CalledWith("mean") =>
          /\ Geq(Rat(SeqMax(Samples), 1), ret[1])
          /\ Geq(ret[1], NpMedian(Samples))
    /\ CalledWith("median") => Geq(NpMean(Samples), ret[1])
    /\ CalledWith("max") => Geq(ret[1], NpMean(Samples))

(* C8 amended: on such a region max >= mean and max >= median; the mean    *)
(* may lie below the median (SpecReduce).                                  *)
C8_MaxBoundsMeanAndMedian ==
    /\ CalledWith("mean") => Geq(Rat(SeqMax(Samples), 1), ret[1])
    /\ CalledWith("median") => Geq(Rat(SeqMax(Samples), 1), ret[1])
    /\ CalledWith("max") =>
          /\ Geq(ret[1], NpMean(Samples))
          /\ Geq(ret[1], NpMedian(Samples))

(* C8 witness: the mean of a four-sample region, computed below its median *)
C8_Witness ==
    /\ CalledWith("mean")
    /\ Len(Samples) = 4
    /\ cells[1].brightness = ret[1]
    /\ ~Geq(ret[1], NpMedian(Samples))
    /\ Geq(Rat(SeqMax(Samples), 1), ret[1])

(* 1-based positions, in the contour sequence, of the contours of area at  *)
(* least min_area                                                          *)
KeptPositions(contours, min_area) ==
    { i \in 1..Len(contours) : contours[i].area2 >= 2 * min_area }
KthOf(S, k) == CHOOSE i \in S : Cardinality({ j \in S : j <= i }) = k

(* C9: detect_cells_automatically keeps exactly the contours of area >=    *)
(* min_area, in contour order; the kept contour at 1-based position i of   *)
(* the whole contour sequence gets the id cell_i and its bounding box as   *)
(* x, y, width, height (SpecDetect).                                       *)
C9_DetectKeepsByArea ==
    (Op = "detect_cells_automatically" /\ Succeeded) =>
        LET contours == lastCall.args[1]
            kept == KeptPositions(contours, lastCall.args[2])
        IN /\ Len(cells) = Cardinality(kept)
           /\ ret = cells
           /\ \A k \in 1..Len(cells) :
                 LET i == KthOf(kept, k)
                 IN /\ cells[k].cell_id = "cell_" \o ToString(i)
                    /\ cells[k].x = contours[i].x
                    /\ cells[k].y = contours[i].y
                    /\ cells[k].width = contours[i].w
                    /\ cells[k].height = contours[i].h
           /\ \A k, l \in 1..Len(cells) : k # l => cells[k].cell_id # cells[l].cell_id

(* C9 witness: of three contours the middle one is dropped, leaving the    *)
(* ids cell_1 and cell_3                                                   *)
C9_Witness ==
    /\ Op = "detect_cells_automatically"
    /\ Len(lastCall.args[1]) = 3
    /\ Len(cells) = 2
    /\ cells[1].cell_id = "cell_1"
    /\ cells[2].cell_id = "cell_3"

(* What the batch owes for a folder of N pictures and a rows x cols grid   *)
BatchFinished == bpc \in {"returned", "raised"}
GridBatch ==
    /\ cell_detection = "grid"
    /\ grid_params # NoParams
    /\ grid_params[1] >= 1
    /\ grid_params[2] >= 1
BatchRecordsAsClaimed ==
    LET N == Len(image_files)
        per == grid_params[1] * grid_params[2]
    IN /\ bpc = "returned"
       /\ Len(ret) = N * per
       /\ \A n \in 1..N, k \in 1..per :
             LET rec == ret[(n - 1) * per + k]
                 cell == GridCells(image_files[n].img, grid_params[1], grid_params[2],
                                   grid_params[3], grid_params[4])[k]
             IN /\ rec.image_name = image_files[n].name
                /\ SameGeometry(rec, cell)
                /\ rec.brightness = NpMean(CellRegion(image_files[n].img, cell))

(* C10: a grid batch over N pictures of one size returns N*rows*cols       *)
(* records, by picture in folder order and by cell within a picture, each  *)
(* tagged with the name of its picture and computed from that picture      *)
(* alone (SpecBatch).  The batch raises instead when the folder holds no   *)
(* picture.                                                                *)
C10_BatchRecords ==
    (BatchFinished /\ GridBatch) => BatchRecordsAsClaimed

(* The same for a folder that holds at least one picture (SpecBatch) *)
BatchRecordsOfNonEmptyFolder ==
    (BatchFinished /\ GridBatch /\ Len(image_files) >= 1) => BatchRecordsAsClaimed

BatchOfTwoReturned ==
    /\ bpc = "returned"
    /\ GridBatch
    /\ Len(image_files) = 2
    /\ grid_params[1] * grid_params[2] = 4

(* The brightness column of the results, and its k-th smallest value *)
Brightnesses == [i \in 1..Len(results) |-> results[i].brightness]
KthSmallest(bs, k) ==
    LET v == CHOOSE i \in 1..Len(bs) :
                /\ Cardinality({ j \in 1..Len(bs) : ~RLeq(bs[i], bs[j]) }) < k
                /\ k <= Cardinality({ j \in 1..Len(bs) : RLeq(bs[j], bs[i]) })
    IN bs[v]
(* The q-th percentile by linear interpolation between the order           *)
(* statistics on either side of rank q/100 * (n-1)                         *)
Interpolated(bs, q) ==
    LET pos == q * (Len(bs) - 1)
        lo == KthSmallest(bs, pos \div 100 + 1)
        hi == KthSmallest(bs, Min(pos \div 100 + 2, Len(bs)))
    IN RAdd(lo, RMul(<<pos % 100, 100>>, RSub(hi, lo)))

(* C11: get_statistics on non-empty results returns count = number of      *)
(* records, min and max = the smallest and largest brightness, mean = the  *)
(* arithmetic mean, and median, q1, q3 = the 50th, 25th, 75th percentiles  *)
(* by linear interpolation; brightness 10, 20, 30, 40 gives mean 25,       *)
(* median 25, min 10, max 40, q1 17.5, q3 32.5 (SpecStats; brightness      *)
(* values that are numbers, not NaN).                                      *)
C11_Statistics ==
    (Op = "get_statistics" /\ results # <<>> /\ ~HasNaN(Brightnesses)) =>
        LET st == ret[1]
            bs == Brightnesses
            n == Len(bs)
        IN /\ Succeeded
           /\ st.count = n
           /\ \E i \in 1..n : st.min = bs[i]
           /\ \E i \in 1..n : st.max = bs[i]
           /\ \A i \in 1..n : RLeq(st.min, bs[i]) /\ RLeq(bs[i], st.max)
           /\ RMul(st.mean, <<n, 1>>) = RSum(bs)
           /\ st.median = Interpolated(bs, 50)
           /\ st.q1 = Interpolated(bs, 25)
           /\ st.q3 = Interpolated(bs, 75)
           /\ bs = << <<10, 1>>, <<20, 1>>, <<30, 1>>, <<40, 1>> >> =>
                 /\ st.mean = <<25, 1>>
                 /\ st.median = <<25, 1>>
                 /\ st.min = <<10, 1>>
                 /\ st.max = <<40, 1>>
                 /\ st.q1 = <<35, 2>>
                 /\ st.q3 = <<65, 2>>

(* C11 witness: statistics returned for the brightness values 10, 20, 30, 40 *)
C11_Witness ==
    /\ Op = "get_statistics"
    /\ Succeeded
    /\ Brightnesses = << <<10, 1>>, <<20, 1>>, <<30, 1>>, <<40, 1>> >>
    /\ ret[1].count = 4

(* A cell whose brightness is not what any method gives on the loaded grid *)
Stale(cell) ==
    /\ cell.brightness # <<0, 1>>
    /\ \A m \in Methods : Brightness(image, cell, m, "nan").val # cell.brightness

(* C12: load_image replaces the grid and nothing else: the region list,    *)
(* each cell's brightness included, and the results are as before the      *)
(* call (Spec).                                                            *)
C12_LoadReplacesOnlyGrid ==
    [][lastCall'.op = "load_image" =>
          /\ cells' = cells
          /\ results' = results
          /\ image' = IF lastCall'.err = ErrNone THEN ret'[1] ELSE image]_vars

(* C12 witness: a second grid has been loaded over cells and results that  *)
(* were computed from the first; a cell's brightness no longer matches     *)
(* the loaded grid                                                         *)
C12_Witness ==
    /\ Op = "load_image"
    /\ Succeeded
    /\ results # <<>>
    /\ \E i \in 1..Len(cells) :
          /\ Stale(cells[i])
          /\ results[i].brightness = cells[i].brightness

(* C13: a successful calculate_brightness(cell, method) sets that cell's   *)
(* brightness to the value it returns and changes nothing else: the grid,  *)
(* the list and its order, the other cells and the result records are as   *)
(* before (Spec).                                                          *)
C13_CalculateSetsOneBrightness ==
    [][(lastCall'.op = "calculate_brightness" /\ lastCall'.err = ErrNone) =>
          /\ Len(ret') = 1
          /\ cells' = [cells EXCEPT ![lastCall'.args[1]].brightness = ret'[1]]
          /\ image' = image
          /\ results' = results]_vars

(* C13 witness: after an analysis, calculate_brightness has given a cell a *)
(* brightness that differs from the one in its result record               *)
C13_Witness ==
    /\ Op = "calculate_brightness"
    /\ Succeeded
    /\ Len(results) = Len(cells)
    /\ LET i == lastCall.args[1]
       IN /\ cells[i].brightness = ret[1]
          /\ results[i].brightness # cells[i].brightness
          /\ SameGeometry(results[i], cells[i])

====
